---- MODULE Spec2Model ----
(***************************************************************************)
(* memFS: an in-memory file system kept as one flat map from path strings  *)
(* to entries (src/memFS.cpp).  Strings are modelled as sequences of       *)
(* one-character strings so that find(prefix) == 0, substr and             *)
(* find_last_of work on characters exactly as in the source.               *)
(***************************************************************************)
EXTENDS Integers, Sequences, FiniteSets, TLC

\* ------------------------------------------------------------------ bounds
\* longest key (in characters) a command may leave in the map
MaxKeyLen == 6
\* number of keys a command may leave in the map
MaxEntries == 6
\* last calendar day the clock reaches
MaxDay == 2
\* number of events of a session that are explored: commands typed at the
\* prompt and midnights passed
MaxSteps == 3

\* longest path string handed to a function called on its own
MaxPathLen == 5

\* number of items, hence of threads, of a batch command
MaxThreads == 2

\* number of commands of the worked example (mkdir, write, read, cp, read, rmdir, rmdir -r, ls)
TraceLen == 8

\* ------------------------------------------------------------- the inputs
\* the key of the root directory
Root == <<"/">>

\* raw path arguments typed at the shell (before normalizePath)
PathArgs ==
  { <<"/">>,
    <<"/", "a">>,
    <<"/", "a", "/", "b">>,
    <<"b">> }

\* path arguments for sessions about names that extend one another: /ab
\* beside /a, and entries one, two and three levels deep
SiblingArgs ==
  { <<"/">>,
    <<"/", "a">>,
    <<"/", "a", "b">>,
    <<"/", "a", "/", "b">>,
    <<"/", "a", "/", "b", "/", "c">> }

\* the characters of the path strings handed to normalizePath
PathChars == { "/", ".", "a" }

\* every string of at most MaxPathLen such characters
RawPaths == UNION { [ 1..n -> PathChars ] : n \in 0..MaxPathLen }

\* two longer paths with several ".." and several names
ExamplePaths ==
  { <<".", ".", "/", ".", ".", "/", ".", ".", "/", "x">>,
    <<"a", "/", "b", "/", ".", ".", "/", "c">> }

\* values of currentDirectory under which normalizePath is called
CanonicalCwds ==
  { <<"/">>, <<"/", "a">>, <<"/", "x">>, <<"/", "a", "/", "b">> }

\* path arguments and a content that hold the dump file's field separator
DumpArgs == { <<"/", "a">>, <<"/", "a", "|", "1">> }

DumpContents == { <<"x", "|", "y">> }

\* the paths and the content of the worked example
Docs == <<"/", "d", "o", "c", "s">>
Readme == <<"/", "d", "o", "c", "s", "/", "r", "e", "a", "d", "m", "e", ".", "t", "x", "t">>
Backup == <<"/", "b", "a", "c", "k", "u", "p">>
BackupReadme == <<"/", "b", "a", "c", "k", "u", "p", "/", "r", "e", "a", "d", "m", "e", ".", "t", "x", "t">>
Hello == <<"h", "e", "l", "l", "o">>

\* the keys the worked example stores, whatever their length
ExampleKeys == { Docs, Readme, Backup, BackupReadme }

\* a key is explored when it is short, or is one of the worked example
KeyInBounds(k) == Len(k) <= MaxKeyLen \/ k \in ExampleKeys

\* the paths typed in sessions that use every command
SessionArgs == { <<"/", "a">>, <<"b">> }

\* the patterns searched for
SearchPatterns == { <<"a">> }

\* contents typed after `write <path>`
Contents == { <<"x">>, <<"y", "y">> }

\* ---------------------------------------------------------- string helpers
\* std::string::find(p) == 0
StartsWith(s, p) == Len(p) <= Len(s) /\ SubSeq(s, 1, Len(p)) = p

\* std::string::find_last_of('/'): 1-based index of the last '/', 0 for npos
LastSlash(s) ==
  LET idx == { i \in 1..Len(s) : s[i] = "/" }
  IN IF idx = {} THEN 0 ELSE CHOOSE i \in idx : \A j \in idx : j <= i

\* std::string::substr(pos) with a 0-based pos
SubstrFrom(s, pos) == SubSeq(s, pos + 1, Len(s))

\* std::getline(stream, component, '/') repeated until the stream ends:
\* the pieces between separators (no piece after a trailing separator)
RECURSIVE SplitOn(_, _)
SplitOn(s, sep) ==
  IF s = <<>> THEN <<>>
  ELSE LET idx == { i \in 1..Len(s) : s[i] = sep }
       IN IF idx = {} THEN << s >>
          ELSE LET i == CHOOSE k \in idx : \A j \in idx : k <= j
               IN << SubSeq(s, 1, i - 1) >> \o SplitOn(SubSeq(s, i + 1, Len(s)), sep)

\* the loop over components with ".." treated like "."
RECURSIVE NormComponents_NoPop(_, _)
NormComponents_NoPop(parts, components) ==
  IF parts = <<>> THEN components
  ELSE LET component == Head(parts)
           rest == Tail(parts)
       IN IF component \in { <<>>, <<".">>, <<".", ".">> }
          THEN NormComponents_NoPop(rest, components)
          ELSE NormComponents_NoPop(rest, Append(components, component))

\* the loop over components of normalizePath
RECURSIVE NormComponents(_, _)
NormComponents(parts, components) ==
  IF parts = <<>> THEN components
  ELSE LET component == Head(parts)
           rest == Tail(parts)
       IN IF component = <<".">> THEN NormComponents(rest, components)
          ELSE IF component = <<".", ".">>
               THEN IF components # <<>>
                    THEN NormComponents(rest, SubSeq(components, 1, Len(components) - 1))
                    ELSE NormComponents(rest, components)
          ELSE IF component # <<>>
               THEN NormComponents(rest, Append(components, component))
          ELSE NormComponents(rest, components)

\* normalizedPath = "/"; for each comp: normalizedPath += comp + "/"
RECURSIVE JoinComponents(_)
JoinComponents(components) ==
  IF components = <<>> THEN <<>>
  ELSE Head(components) \o <<"/">> \o JoinComponents(Tail(components))

\* normalizePath that prepends the current directory to absolute paths too
normalizePath_AlwaysRelative(path, cwd) ==
  LET start == (IF cwd # Root THEN cwd \o <<"/">> ELSE cwd) \o path
      joined == <<"/">> \o JoinComponents(NormComponents(SplitOn(start, "/"), <<>>))
  IN IF Len(joined) > 1 /\ joined[Len(joined)] = "/"
     THEN SubSeq(joined, 1, Len(joined) - 1)
     ELSE joined

\* normalizePath(path), reading the global currentDirectory as cwd
normalizePath(path, cwd) ==
  LET start == IF path = <<>> \/ path[1] # "/"
               THEN (IF cwd # Root THEN cwd \o <<"/">> ELSE cwd) \o path
               ELSE path
      joined == <<"/">> \o JoinComponents(NormComponents(SplitOn(start, "/"), <<>>))
  IN IF Len(joined) > 1 /\ joined[Len(joined)] = "/"
     THEN SubSeq(joined, 1, Len(joined) - 1)
     ELSE joined

\* getDirectoryFromPath: substr(0, lastSlash), or "/" when there is no '/'
getDirectoryFromPath(path) ==
  LET lastSlash == LastSlash(path)
  IN IF lastSlash = 0 THEN Root ELSE SubSeq(path, 1, lastSlash - 1)

\* getFilenameFromPath: substr(lastSlash + 1), or the path when there is no '/'
getFilenameFromPath(path) ==
  LET lastSlash == LastSlash(path)
  IN IF lastSlash = 0 THEN path ELSE SubSeq(path, lastSlash + 1, Len(path))

\* ------------------------------------------------------------------ dates
Digit(n) == <<"0", "1", "2", "3", "4", "5", "6", "7", "8", "9">>[n + 1]

\* getCurrentDateString: put_time(tm, "%d/%m/%Y") on the day the clock shows
getCurrentDateString(day) ==
  << Digit(day \div 10), Digit(day % 10), "/", "1", "1", "/", "2", "0", "2", "6" >>

\* ---------------------------------------------------------------- entries
\* struct FSEntry
FSEntry(type, data, size, created, modified) ==
  [ type |-> type, data |-> data, sizeInBytes |-> size,
    creationDate |-> created, modificationDate |-> modified ]

\* a fresh directory entry, as built in ensureParentDirectoriesExist,
\* addNewEntryInternal and initializeFileSystem
NewDirEntry(date) == FSEntry("DIRECTORY", <<>>, 0, date, date)

\* memoryFileSystem[key] = entry
Put(fs, key, entry) ==
  [ k \in (DOMAIN fs) \cup {key} |-> IF k = key THEN entry ELSE fs[k] ]

\* memoryFileSystem.erase(key) for each key of a set
EraseAll(fs, keys) == [ k \in (DOMAIN fs) \ keys |-> fs[k] ]

directoryExists(fs, path) == path \in DOMAIN fs /\ fs[path].type = "DIRECTORY"

fileExists(fs, path) == path \in DOMAIN fs /\ fs[path].type = "FILE"

\* sourcePath == "/" ? "/" : sourcePath + "/"
PrefixOf(path) == IF path = Root THEN Root ELSE path \o <<"/">>

\* the prefix scan with the bare path as the prefix (no "/" appended)
ScanByPrefix_NoSlash(fs, path) ==
  { k \in DOMAIN fs : k # path /\ StartsWith(k, path) }

\* the keys a prefix scan selects: entry.first != path && entry.first.find(prefix) == 0
ScanByPrefix(fs, path) ==
  { k \in DOMAIN fs : k # path /\ StartsWith(k, PrefixOf(path)) }

\* ensureParentDirectoriesExist without the recursion: only the immediate
\* parent is created
ensureParentDirectoriesExist_OneLevel(fs, path, date) ==
  LET dirPath == getDirectoryFromPath(path)
  IN IF dirPath = Root \/ directoryExists(fs, dirPath) THEN fs
     ELSE Put(fs, dirPath, NewDirEntry(date))

\* ensureParentDirectoriesExist: always returns true; the map it leaves
RECURSIVE ensureParentDirectoriesExist(_, _, _)
ensureParentDirectoriesExist(fs, path, date) ==
  LET dirPath == getDirectoryFromPath(path)
  IN IF dirPath = Root THEN fs
     ELSE IF directoryExists(fs, dirPath) THEN fs
     ELSE Put(ensureParentDirectoriesExist(fs, dirPath, date), dirPath, NewDirEntry(date))

\* updateFileContent that forgets to refresh sizeInBytes
updateFileContent_StaleSize(fs, path, content, date) ==
  IF path \notin DOMAIN fs \/ fs[path].type # "FILE"
  THEN [ ok |-> FALSE, fs |-> fs ]
  ELSE [ ok |-> TRUE,
         fs |-> [ fs EXCEPT ![path] =
                    [ @ EXCEPT !.data = content, !.modificationDate = date ] ] ]

\* updateFileContent: [ok, fs]
updateFileContent(fs, path, content, date) ==
  IF path \notin DOMAIN fs \/ fs[path].type # "FILE"
  THEN [ ok |-> FALSE, fs |-> fs ]
  ELSE [ ok |-> TRUE,
         fs |-> [ fs EXCEPT ![path] =
                    [ @ EXCEPT !.data = content,
                               !.sizeInBytes = Len(content),
                               !.modificationDate = date ] ] ]

\* writeContentToFile: [ok, err, path, fs]
writeContentToFile(fs, path, content, cwd, date) ==
  LET normalizedPath == normalizePath(path, cwd)
      fs1 == ensureParentDirectoriesExist(fs, normalizedPath, date)
  IN IF fileExists(fs1, normalizedPath)
     THEN LET r == updateFileContent(fs1, normalizedPath, content, date)
          IN [ ok |-> r.ok, err |-> IF r.ok THEN "" ELSE "NotAFile",
               path |-> normalizedPath, fs |-> r.fs ]
     ELSE [ ok |-> TRUE, err |-> "", path |-> normalizedPath,
            fs |-> Put(fs1, normalizedPath,
                       FSEntry("FILE", content, Len(content), date, date)) ]

\* readContentFromFile that looks for the key only, not for its type
readContentFromFile_AnyType(fs, path, cwd) ==
  LET normalizedPath == normalizePath(path, cwd)
  IN IF normalizedPath \notin DOMAIN fs
     THEN [ ok |-> FALSE, path |-> normalizedPath, data |-> <<>> ]
     ELSE [ ok |-> TRUE, path |-> normalizedPath, data |-> fs[normalizedPath].data ]

\* readContentFromFile: [ok, path, data]
readContentFromFile(fs, path, cwd) ==
  LET normalizedPath == normalizePath(path, cwd)
  IN IF normalizedPath \notin DOMAIN fs \/ fs[normalizedPath].type # "FILE"
     THEN [ ok |-> FALSE, path |-> normalizedPath, data |-> <<>> ]
     ELSE [ ok |-> TRUE, path |-> normalizedPath, data |-> fs[normalizedPath].data ]

\* listDirectory without the test for a further "/": the whole subtree
listDirectory_Subtree(fs, path, cwd) ==
  LET normalizedPath == normalizePath(path, cwd)
      prefix == PrefixOf(normalizedPath)
  IN IF ~directoryExists(fs, normalizedPath)
     THEN [ ok |-> FALSE, path |-> normalizedPath, entries |-> {} ]
     ELSE [ ok |-> TRUE, path |-> normalizedPath,
            entries |->
              { [ name |-> SubstrFrom(k, Len(prefix)), entry |-> fs[k] ] :
                k \in { e \in DOMAIN fs :
                          e # normalizedPath /\ StartsWith(e, prefix) } } ]

\* listDirectory: [ok, path, entries]; entries are the (relativePath, entry)
\* pairs collected for display, in no particular order
listDirectory(fs, path, cwd) ==
  LET normalizedPath == normalizePath(path, cwd)
      prefix == PrefixOf(normalizedPath)
  IN IF ~directoryExists(fs, normalizedPath)
     THEN [ ok |-> FALSE, path |-> normalizedPath, entries |-> {} ]
     ELSE [ ok |-> TRUE, path |-> normalizedPath,
            entries |->
              { [ name |-> SubstrFrom(k, Len(prefix)), entry |-> fs[k] ] :
                k \in { e \in DOMAIN fs :
                          /\ e # normalizedPath
                          /\ StartsWith(e, prefix)
                          /\ LastSlash(SubstrFrom(e, Len(prefix))) = 0 } } ]

\* addNewEntryInternal without the test for an existing entry
addNewEntryInternal_Overwrite(fs, path, isDirectory, cwd, date) ==
  LET normalizedPath == normalizePath(path, cwd)
  IN [ ok |-> TRUE, err |-> "", path |-> normalizedPath,
       fs |-> Put(ensureParentDirectoriesExist(fs, normalizedPath, date),
                  normalizedPath,
                  FSEntry(IF isDirectory THEN "DIRECTORY" ELSE "FILE",
                          <<>>, 0, date, date)) ]

\* addNewEntryInternal: [ok, err, path, fs]; err names the error printed
addNewEntryInternal(fs, path, isDirectory, cwd, date) ==
  LET normalizedPath == normalizePath(path, cwd)
  IN IF normalizedPath \in DOMAIN fs
     THEN [ ok |-> FALSE, err |-> "AlreadyExists", path |-> normalizedPath, fs |-> fs ]
     ELSE [ ok |-> TRUE, err |-> "", path |-> normalizedPath,
            fs |-> Put(ensureParentDirectoriesExist(fs, normalizedPath, date),
                       normalizedPath,
                       FSEntry(IF isDirectory THEN "DIRECTORY" ELSE "FILE",
                               <<>>, 0, date, date)) ]

\* removeEntryInternal with the emptiness test dropped: a directory is
\* erased whether or not keys remain below it
removeEntryInternal_NoEmptyCheck(fs, path, recursive, cwd) ==
  LET normalizedPath == normalizePath(path, cwd)
  IN IF normalizedPath \notin DOMAIN fs
     THEN [ ok |-> FALSE, err |-> "NotFound", path |-> normalizedPath, fs |-> fs ]
     ELSE LET isDir == fs[normalizedPath].type = "DIRECTORY"
              pathsToRemove == IF isDir /\ recursive
                               THEN ScanByPrefix(fs, normalizedPath)
                               ELSE {}
          IN [ ok |-> TRUE, err |-> "", path |-> normalizedPath,
               fs |-> EraseAll(fs, pathsToRemove \cup {normalizedPath}) ]

\* removeEntryInternal after its first line, normalizedPath in hand:
\* [ok, err, path, fs]
RemoveNormalized(fs, normalizedPath, recursive) ==
  IF normalizedPath \notin DOMAIN fs
  THEN [ ok |-> FALSE, err |-> "NotFound", path |-> normalizedPath, fs |-> fs ]
  ELSE LET isDir == fs[normalizedPath].type = "DIRECTORY"
           hasContents == ScanByPrefix(fs, normalizedPath) # {}
       IN IF isDir /\ hasContents /\ ~recursive
          THEN [ ok |-> FALSE, err |-> "DirectoryNotEmpty",
                 path |-> normalizedPath, fs |-> fs ]
          ELSE LET pathsToRemove == IF isDir /\ recursive
                                    THEN ScanByPrefix(fs, normalizedPath)
                                    ELSE {}
               IN [ ok |-> TRUE, err |-> "", path |-> normalizedPath,
                    fs |-> EraseAll(fs, pathsToRemove \cup {normalizedPath}) ]

\* removeEntryInternal: [ok, err, path, fs]
removeEntryInternal(fs, path, recursive, cwd) ==
  RemoveNormalized(fs, normalizePath(path, cwd), recursive)

\* entry.first.substr(sourcePrefix.length()) glued to destPrefix
Remap(key, sourcePath, destPath) ==
  PrefixOf(destPath) \o SubstrFrom(key, Len(PrefixOf(sourcePath)))

\* the file move that leaves the source key in place
MoveFile_KeepSource(fs, sourcePath, destPath) ==
  Put(fs, destPath, fs[sourcePath])

\* memoryFileSystem[destPath] = sourceIter->second; memoryFileSystem.erase(sourcePath)
MoveFile(fs, sourcePath, destPath) ==
  EraseAll(Put(fs, destPath, fs[sourcePath]), {sourcePath})

\* parseMoveCommand without the test for an existing destination
MoveEntry_NoDestCheck(fs, sourcePath, destPath, cwd, date) ==
  IF sourcePath \notin DOMAIN fs THEN [ ok |-> FALSE, err |-> "NotFound", fs |-> fs ]
  ELSE [ ok |-> TRUE, err |-> "", fs |-> MoveFile(fs, sourcePath, destPath) ]

\* the body of parseMoveCommand under the lock: [ok, err, fs]
MoveEntry(fs, sourcePath, destPath, cwd, date) ==
  IF sourcePath \notin DOMAIN fs THEN [ ok |-> FALSE, err |-> "NotFound", fs |-> fs ]
  ELSE IF destPath \in DOMAIN fs THEN [ ok |-> FALSE, err |-> "AlreadyExists", fs |-> fs ]
  ELSE IF fs[sourcePath].type = "DIRECTORY"
  THEN LET made == addNewEntryInternal(fs, destPath, TRUE, cwd, date)
       IN IF ~made.ok THEN [ ok |-> FALSE, err |-> made.err, fs |-> made.fs ]
          ELSE LET fs1 == made.fs
                   moved == ScanByPrefix(fs1, sourcePath)
                   newKeys == { Remap(k, sourcePath, destPath) : k \in moved }
                   fs2 == [ k \in (DOMAIN fs1) \cup newKeys |->
                              IF k \in newKeys
                              THEN fs1[CHOOSE o \in moved : Remap(o, sourcePath, destPath) = k]
                              ELSE fs1[k] ]
                   pathsToRemove == { k \in DOMAIN fs2 : StartsWith(k, PrefixOf(sourcePath)) }
               IN [ ok |-> TRUE, err |-> "",
                    fs |-> EraseAll(fs2, pathsToRemove \cup {sourcePath}) ]
  ELSE [ ok |-> TRUE, err |-> "", fs |-> MoveFile(fs, sourcePath, destPath) ]

\* an entry copied with both dates set to the current date
Redated(entry, date) ==
  [ entry EXCEPT !.creationDate = date, !.modificationDate = date ]

\* The range-for of parseCopyCommand inserts into the unordered_map it is
\* iterating.  The keys that matched when the loop began are all visited
\* as long as no insertion has rehashed the table; once a key has been
\* inserted a rehash may have reordered the nodes, so the loop may end
\* with matching keys unvisited.  A key inserted by the loop that itself
\* matches the prefix may or may not be visited.  The result is the set
\* of maps the loop can leave.  A position of the loop is the map so far,
\* the keys visited and whether an insertion has happened.
CopySteps(at, sourcePath, destPath, date) ==
  LET pending == { k \in ScanByPrefix(at.fs, sourcePath) \ at.visited :
                     KeyInBounds(Remap(k, sourcePath, destPath)) }
  IN { [ fs |-> Put(at.fs, Remap(k, sourcePath, destPath), Redated(at.fs[k], date)),
         visited |-> at.visited \cup {k},
         inserted |-> at.inserted \/ Remap(k, sourcePath, destPath) \notin DOMAIN at.fs ]
       : k \in pending }

\* every position the loop can be in, from the positions in frontier on
RECURSIVE CopyReach(_, _, _, _, _)
CopyReach(seen, frontier, sourcePath, destPath, date) ==
  IF frontier = {} THEN seen
  ELSE LET further == UNION { CopySteps(at, sourcePath, destPath, date) : at \in frontier }
       IN CopyReach(seen \cup frontier, further \ (seen \cup frontier),
                    sourcePath, destPath, date)

\* a copy loop that visits nothing: the directory entry alone is copied
CopyLoop_Shallow(fs, sourcePath, destPath, date) == { fs }

CopyLoop(fs, sourcePath, destPath, date) ==
  LET orig == ScanByPrefix(fs, sourcePath)
      begin == [ fs |-> fs, visited |-> {}, inserted |-> FALSE ]
      reach == CopyReach({}, {begin}, sourcePath, destPath, date)
  IN { at.fs : at \in { t \in reach : t.inserted \/ (orig \subseteq t.visited) } }

\* the body of parseCopyCommand under the lock: the set of [ok, err, fs] it can give
CopyEntry(fs, sourcePath, destPath, cwd, date) ==
  IF sourcePath \notin DOMAIN fs THEN { [ ok |-> FALSE, err |-> "NotFound", fs |-> fs ] }
  ELSE IF destPath \in DOMAIN fs THEN { [ ok |-> FALSE, err |-> "AlreadyExists", fs |-> fs ] }
  ELSE IF fs[sourcePath].type = "DIRECTORY"
  THEN LET made == addNewEntryInternal(fs, destPath, TRUE, cwd, date)
       IN IF ~made.ok THEN { [ ok |-> FALSE, err |-> made.err, fs |-> made.fs ] }
          ELSE { [ ok |-> TRUE, err |-> "", fs |-> f ] :
                 f \in CopyLoop(made.fs, sourcePath, destPath, date) }
  ELSE { [ ok |-> TRUE, err |-> "",
           fs |-> Put(fs, destPath, Redated(fs[sourcePath], date)) ] }

\* ------------------------------------------------------ the dump file codec
\* operator<< of a size_t: its decimal digits
RECURSIVE Decimal(_)
Decimal(n) == IF n < 10 THEN << Digit(n) >> ELSE Decimal(n \div 10) \o << Digit(n % 10) >>

\* std::stoull on a string of decimal digits
RECURSIVE Stoull(_)
Stoull(str) ==
  IF str = <<>> THEN 0
  ELSE 10 * Stoull(SubSeq(str, 1, Len(str) - 1))
       + (CHOOSE d \in 0..9 : Digit(d) = str[Len(str)])

\* one record line of parseSaveCommand
DumpLine(key, entry) ==
  (IF entry.type = "FILE" THEN <<"F", "I", "L", "E">> ELSE <<"D", "I", "R">>)
  \o <<"|">> \o key
  \o <<"|">> \o Decimal(entry.sizeInBytes)
  \o <<"|">> \o entry.creationDate
  \o <<"|">> \o entry.modificationDate
  \o <<"|">> \o (IF entry.type = "FILE" THEN entry.data ELSE <<>>)

\* the lines parseSaveCommand writes: the header comment and one per entry
\* (the map's iteration order is unspecified, so the file is kept as the
\* set of its lines and parseLoadCommand reads them in any order)
DumpLines(fs) == { <<"#">> } \cup { DumpLine(k, fs[k]) : k \in DOMAIN fs }

\* std::getline(ss, field, '|'): fails when nothing is left to extract
GetField(rest) ==
  IF rest = <<>> THEN [ ok |-> FALSE, field |-> <<>>, rest |-> <<>> ]
  ELSE LET idx == { i \in 1..Len(rest) : rest[i] = "|" }
       IN IF idx = {} THEN [ ok |-> TRUE, field |-> rest, rest |-> <<>> ]
          ELSE LET i == CHOOSE k \in idx : \A j \in idx : k <= j
               IN [ ok |-> TRUE, field |-> SubSeq(rest, 1, i - 1),
                    rest |-> SubSeq(rest, i + 1, Len(rest)) ]

\* one line of parseLoadCommand: skipped, or the key and entry it stores
ParseLine(line) ==
  IF line = <<>> \/ line[1] = "#" THEN [ ok |-> FALSE ]
  ELSE LET f1 == GetField(line)
           f2 == GetField(f1.rest)
           f3 == GetField(f2.rest)
           f4 == GetField(f3.rest)
           f5 == GetField(f4.rest)
       IN IF ~(f1.ok /\ f2.ok /\ f3.ok /\ f4.ok /\ f5.ok) THEN [ ok |-> FALSE ]
          ELSE [ ok |-> TRUE, key |-> f2.field,
                 entry |-> FSEntry(IF f1.field = <<"F", "I", "L", "E">>
                                   THEN "FILE" ELSE "DIRECTORY",
                                   f5.rest, Stoull(f3.field), f4.field, f5.field) ]

\* the maps parseLoadCommand can build from the lines of a file: a later
\* line for the same path overwrites an earlier one
LoadOutcomes(lines) ==
  LET parsed == { ParseLine(l) : l \in lines }
      good == { r \in parsed : r.ok }
      keys == { r.key : r \in good }
      For(k) == { r.entry : r \in { g \in good : g.key = k } }
  IN IF \A k \in keys : Cardinality(For(k)) = 1
     THEN { [ k \in keys |-> CHOOSE e \in For(k) : TRUE ] }
     ELSE { f \in [ keys -> { r.entry : r \in good } ] : \A k \in keys : f[k] \in For(k) }

\* ------------------------------------------------------------------ state
VARIABLES
  memoryFileSystem,   \* std::unordered_map<std::string, FSEntry>
  currentDirectory,   \* std::string currentDirectory
  today,              \* the day std::chrono::system_clock shows
  disk,               \* the dump file on disk: whether it exists, and its lines
  last,               \* the last command run and what it reported
  steps,              \* how many events (commands, midnights) have happened
  out,                \* what the last listing, or the last function called
                      \* on its own, returned
  batch               \* the threads of the batch command in progress, the
                      \* holder of fileSystemMutex and what the threads returned

vars == << memoryFileSystem, currentDirectory, today, disk, last, steps, out, batch >>

\* no batch command is running; fileSystemMutex is free (owner 0)
NoBatch ==
  [ op |-> "none", paths |-> <<>>, contents |-> <<>>, normalizedPath |-> <<>>,
    before |-> <<>>,
    pc |-> <<>>, owner |-> 0, ret |-> <<>>, missingFiles |-> <<>> ]

\* nothing has been listed or returned yet
NoOutput == [ fn |-> "none" ]

\* what a command printed: ok is TRUE for its success message, otherwise
\* err names the error message
Report(op, ok, err) == [ op |-> op, ok |-> ok, err |-> err ]

\* a command is explored when the map it leaves fits the bounds
InBounds(fs) ==
  /\ Cardinality(DOMAIN fs) <= MaxEntries
  /\ \A k \in DOMAIN fs : KeyInBounds(k)

date == getCurrentDateString(today)

\* main() up to the first prompt: initializeFileSystem on the empty map
Init ==
  /\ today = 1
  /\ memoryFileSystem = [ k \in { Root } |-> NewDirEntry(getCurrentDateString(1)) ]
  /\ currentDirectory = Root
  /\ disk = [ exists |-> FALSE, lines |-> {} ]
  /\ last = Report("init", TRUE, "")
  /\ steps = 0
  /\ out = NoOutput
  /\ batch = NoBatch

\* one more event of the session
Step == steps < MaxSteps /\ steps' = steps + 1

\* midnight passes
Tick ==
  /\ Step
  /\ today < MaxDay
  /\ today' = today + 1
  /\ UNCHANGED << memoryFileSystem, currentDirectory, disk, last, out, batch >>

\* parseCdCommand without the directoryExists test
Cd_NoCheck(arg) ==
  LET targetDir == normalizePath(arg, currentDirectory)
  IN /\ Step
     /\ currentDirectory' = targetDir
     /\ last' = Report("cd", TRUE, "")
     /\ UNCHANGED << memoryFileSystem, today, disk, out, batch >>

\* cd <path>: parseCdCommand
Cd(arg) ==
  LET targetDir == normalizePath(arg, currentDirectory)
      ok == targetDir = Root \/ directoryExists(memoryFileSystem, targetDir)
  IN /\ Step
     /\ currentDirectory' = IF ok THEN targetDir ELSE currentDirectory
     /\ last' = Report("cd", ok, IF ok THEN "" ELSE "NotFound")
     /\ UNCHANGED << memoryFileSystem, today, disk, out, batch >>

\* create <name>: parseCreateCommand, createMultipleFiles with one path, addNewFile
Create(arg) ==
  LET r == addNewEntryInternal(memoryFileSystem, arg, FALSE, currentDirectory, date)
  IN /\ Step
     /\ InBounds(r.fs)
     /\ memoryFileSystem' = r.fs
     /\ last' = Report("create", r.ok, r.err)
     /\ UNCHANGED << currentDirectory, today, disk, out, batch >>

\* mkdir <path>: parseMkdirCommand, addNewDirectory
Mkdir(arg) ==
  LET r == addNewEntryInternal(memoryFileSystem, arg, TRUE, currentDirectory, date)
  IN /\ Step
     /\ InBounds(r.fs)
     /\ memoryFileSystem' = r.fs
     /\ last' = Report("mkdir", r.ok, r.err)
     /\ UNCHANGED << currentDirectory, today, disk, out, batch >>

\* write <path> <content>: parseWriteCommand, writeToFileBatch with one pair
Write(arg, content) ==
  LET r == writeContentToFile(memoryFileSystem, arg, content, currentDirectory, date)
  IN /\ Step
     /\ InBounds(r.fs)
     /\ memoryFileSystem' = r.fs
     /\ last' = Report("write", r.ok, r.err)
     /\ UNCHANGED << currentDirectory, today, disk, out, batch >>

\* delete <name>: parseDeleteCommand, deleteMultipleFiles with one path, removeFile
Delete(arg) ==
  LET r == removeEntryInternal(memoryFileSystem, arg, FALSE, currentDirectory)
  IN /\ Step
     /\ memoryFileSystem' = r.fs
     /\ last' = Report("delete", r.ok, r.err)
     /\ UNCHANGED << currentDirectory, today, disk, out, batch >>

\* rmdir [-r] <path>: parseRmdirCommand, removeDirectory
Rmdir(arg, recursive) ==
  LET r == removeEntryInternal(memoryFileSystem, arg, recursive, currentDirectory)
  IN /\ Step
     /\ memoryFileSystem' = r.fs
     /\ last' = Report("rmdir", r.ok, r.err)
     /\ UNCHANGED << currentDirectory, today, disk, out, batch >>

\* mv <src> <dst>: parseMoveCommand
Mv(src, dst) ==
  LET sourcePath == normalizePath(src, currentDirectory)
      destPath == normalizePath(dst, currentDirectory)
      r == MoveEntry(memoryFileSystem, sourcePath, destPath, currentDirectory, date)
  IN /\ Step
     /\ InBounds(r.fs)
     /\ memoryFileSystem' = r.fs
     /\ last' = Report("mv", r.ok, r.err)
     /\ UNCHANGED << currentDirectory, today, disk, out, batch >>

\* cp <src> <dst>: parseCopyCommand
Cp(src, dst) ==
  LET sourcePath == normalizePath(src, currentDirectory)
      destPath == normalizePath(dst, currentDirectory)
  IN \E r \in CopyEntry(memoryFileSystem, sourcePath, destPath, currentDirectory, date) :
       /\ Step
       /\ InBounds(r.fs)
       /\ memoryFileSystem' = r.fs
       /\ last' = Report("cp", r.ok, r.err)
       /\ UNCHANGED << currentDirectory, today, disk, out, batch >>

\* ls [-l] [path]: listDirectory
Ls(arg) ==
  LET r == listDirectory(memoryFileSystem, arg, currentDirectory)
  IN /\ Step
     /\ last' = Report("ls", r.ok, IF r.ok THEN "" ELSE "NotFound")
     /\ out' = [ fn |-> "ls", path |-> r.path, entries |-> r.entries ]
     /\ UNCHANGED << memoryFileSystem, currentDirectory, today, disk, batch >>

\* read <path>: readContentFromFile
Read(arg) ==
  LET r == readContentFromFile(memoryFileSystem, arg, currentDirectory)
  IN /\ Step
     /\ last' = Report("read", r.ok, IF r.ok THEN "" ELSE "NotFound")
     /\ out' = [ fn |-> "read", path |-> r.path, data |-> r.data ]
     /\ UNCHANGED << memoryFileSystem, currentDirectory, today, disk, batch >>

\* filename.find(pattern) != std::string::npos
Contains(s, pattern) ==
  \E i \in 0..(Len(s) - Len(pattern)) : SubSeq(s, i + 1, i + Len(pattern)) = pattern

\* search <pattern>: parseSearchCommand; the lines printed, in no
\* particular order
Search(pattern) ==
  /\ Step
  /\ last' = Report("search", TRUE, "")
  /\ out' = [ fn |-> "search", pattern |-> pattern,
              entries |-> { [ type |-> memoryFileSystem[k].type, path |-> k ] :
                            k \in { e \in DOMAIN memoryFileSystem :
                                      Contains(getFilenameFromPath(e), pattern) } } ]
  /\ UNCHANGED << memoryFileSystem, currentDirectory, today, disk, batch >>

\* info <path>: parseInfoCommand; the child count is printed for a
\* directory only
Info(arg) ==
  LET normalizedPath == normalizePath(arg, currentDirectory)
      found == normalizedPath \in DOMAIN memoryFileSystem
      prefix == PrefixOf(normalizedPath)
      children == { e \in DOMAIN memoryFileSystem :
                      /\ e # normalizedPath
                      /\ StartsWith(e, prefix)
                      /\ LastSlash(SubstrFrom(e, Len(prefix))) = 0 }
  IN /\ Step
     /\ last' = Report("info", found, IF found THEN "" ELSE "NotFound")
     /\ out' = IF ~found THEN [ fn |-> "info", path |-> normalizedPath ]
               ELSE [ fn |-> "info", path |-> normalizedPath,
                      entry |-> [ memoryFileSystem[normalizedPath] EXCEPT !.data = <<>> ],
                      children |-> IF memoryFileSystem[normalizedPath].type = "DIRECTORY"
                                   THEN Cardinality(children) ELSE 0 ]
     /\ UNCHANGED << memoryFileSystem, currentDirectory, today, disk, batch >>

\* save <file>: parseSaveCommand
Save ==
  /\ Step
  /\ disk' = [ exists |-> TRUE, lines |-> DumpLines(memoryFileSystem) ]
  /\ last' = Report("save", TRUE, "")
  /\ UNCHANGED << memoryFileSystem, currentDirectory, today, out, batch >>

\* load that fills the map without clearing it first
Load_NoClear ==
  /\ Step
  /\ IF disk.exists
     THEN \E fs \in LoadOutcomes(disk.lines) :
            memoryFileSystem' = [ k \in DOMAIN fs \cup DOMAIN memoryFileSystem |->
                                    IF k \in DOMAIN fs THEN fs[k] ELSE memoryFileSystem[k] ]
     ELSE memoryFileSystem' = memoryFileSystem
  /\ last' = Report("load", disk.exists, IF disk.exists THEN "" ELSE "NotFound")
  /\ UNCHANGED << currentDirectory, today, disk, out, batch >>

\* load <file>: parseLoadCommand
Load ==
  /\ Step
  /\ IF disk.exists
     THEN \E fs \in LoadOutcomes(disk.lines) : memoryFileSystem' = fs
     ELSE memoryFileSystem' = memoryFileSystem
  /\ last' = Report("load", disk.exists, IF disk.exists THEN "" ELSE "NotFound")
  /\ UNCHANGED << currentDirectory, today, disk, out, batch >>

\* the loop of main() reading and dispatching command lines, and the clock
Next ==
  \/ Tick
  \/ \E arg \in PathArgs : Cd(arg)
  \/ \E arg \in PathArgs : Create(arg)
  \/ \E arg \in PathArgs : Mkdir(arg)
  \/ \E arg \in PathArgs, content \in Contents : Write(arg, content)
  \/ \E arg \in PathArgs : Delete(arg)
  \/ \E arg \in PathArgs, recursive \in BOOLEAN : Rmdir(arg, recursive)
  \/ \E src \in PathArgs, dst \in PathArgs : Mv(src, dst)
  \/ \E src \in PathArgs, dst \in PathArgs : Cp(src, dst)
  \/ Save
  \/ Load

Spec == Init /\ [][Next]_vars

\* sessions of create, mkdir, write, delete, save and load over names and
\* contents that hold a "|"
NextDump ==
  \/ \E arg \in DumpArgs : Create(arg)
  \/ \E arg \in DumpArgs : Mkdir(arg)
  \/ \E arg \in DumpArgs, content \in DumpContents : Write(arg, content)
  \/ \E arg \in DumpArgs : Delete(arg)
  \/ Save
  \/ Load

SpecDump == Init /\ [][NextDump]_vars

\* a process in which one function is called on its own, once, with
\* currentDirectory set to any of the canonical directories
InitFunctions ==
  /\ today = 1
  /\ memoryFileSystem = [ k \in { Root } |-> NewDirEntry(getCurrentDateString(1)) ]
  /\ currentDirectory \in CanonicalCwds
  /\ disk = [ exists |-> FALSE, lines |-> {} ]
  /\ last = Report("init", TRUE, "")
  /\ steps = 0
  /\ out = NoOutput
  /\ batch = NoBatch

\* normalizePath(path) is called and returns
CallNormalizePath(path) ==
  /\ out = NoOutput
  /\ out' = [ fn |-> "normalizePath", path |-> path,
              result |-> normalizePath(path, currentDirectory) ]
  /\ UNCHANGED << memoryFileSystem, currentDirectory, today, disk, last, steps, batch >>

\* getDirectoryFromPath(path) is called and returns
CallGetDirectoryFromPath(path) ==
  /\ out = NoOutput
  /\ out' = [ fn |-> "getDirectoryFromPath", path |-> path,
              result |-> getDirectoryFromPath(path) ]
  /\ UNCHANGED << memoryFileSystem, currentDirectory, today, disk, last, steps, batch >>

NextFunctions ==
  \/ \E path \in RawPaths \cup ExamplePaths : CallNormalizePath(path)
  \/ \E path \in RawPaths : CallGetDirectoryFromPath(path)

SpecFunctions == InitFunctions /\ [][NextFunctions]_vars

\* the worked example is typed at the first prompt; the session is
\* explored for TraceLen commands
InitTrace ==
  /\ today = 1
  /\ memoryFileSystem = [ k \in { Root } |-> NewDirEntry(getCurrentDateString(1)) ]
  /\ currentDirectory = Root
  /\ disk = [ exists |-> FALSE, lines |-> {} ]
  /\ last = Report("init", TRUE, "")
  /\ steps = MaxSteps - TraceLen
  /\ out = NoOutput
  /\ batch = NoBatch

\* the commands of the worked example, in any order
NextTrace ==
  \/ Mkdir(Docs)
  \/ Write(Readme, Hello)
  \/ \E arg \in { Readme, BackupReadme } : Read(arg)
  \/ Cp(Docs, Backup)
  \/ \E recursive \in BOOLEAN : Rmdir(Docs, recursive)
  \/ Ls(Root)

SpecTrace == InitTrace /\ [][NextTrace]_vars

\* sessions of every command that takes the lock, over two names
NextSession ==
  \/ \E arg \in SessionArgs : Cd(arg)
  \/ \E arg \in SessionArgs : Create(arg)
  \/ \E arg \in SessionArgs : Mkdir(arg)
  \/ \E arg \in SessionArgs, content \in Contents : Write(arg, content)
  \/ \E arg \in SessionArgs : Read(arg)
  \/ \E arg \in SessionArgs : Delete(arg)
  \/ \E arg \in SessionArgs, recursive \in BOOLEAN : Rmdir(arg, recursive)
  \/ \E src, dst \in SessionArgs : Mv(src, dst)
  \/ \E src, dst \in SessionArgs : Cp(src, dst)
  \/ \E arg \in SessionArgs : Ls(arg)
  \/ \E pattern \in SearchPatterns : Search(pattern)
  \/ \E arg \in SessionArgs : Info(arg)
  \/ Save
  \/ Load

SpecSession == Init /\ [][NextSession]_vars

\* sessions of create, mkdir, delete, rmdir and ls over the sibling names
NextSiblings ==
  \/ \E arg \in SiblingArgs : Create(arg)
  \/ \E arg \in SiblingArgs : Mkdir(arg)
  \/ \E arg \in SiblingArgs : Delete(arg)
  \/ \E arg \in SiblingArgs, recursive \in BOOLEAN : Rmdir(arg, recursive)
  \/ \E arg \in SiblingArgs : Ls(arg)

SpecSiblings == Init /\ [][NextSiblings]_vars

\* ------------------------------------------- batch commands, thread by thread
\* create -n, write -n and delete -n start one std::thread per item and join
\* them all; each thread runs addNewFile, writeContentToFile or removeFile,
\* which hold std::lock_guard<std::mutex> lock(fileSystemMutex) from their
\* first line to their return.  A thread is at one of
\*   "start"      not yet in its operation
\*   "locked"     holding the lock, map not yet touched
\*   "ensured"    ensureParentDirectoriesExist has returned
\*   "data"       updateFileContent has assigned data, not yet sizeInBytes
\*   "returning"  the operation is finished, lock_guard not yet destroyed
\*   "failed"     removeFile returned false, fileSystemMutex.lock() pending
\*   "relocked"   holding the lock to push_back on missingFiles
\*   "recorded"   pushed, fileSystemMutex.unlock() pending
\*   "done"       the thread's function has returned
\*   "joined"     thread.join() has returned

\* the stores a batch command is started on: the initial store, and the
\* stores that create /a, mkdir /a and create /a/b leave behind it
BatchStores ==
  LET d == getCurrentDateString(1)
      s0 == [ k \in { Root } |-> NewDirEntry(d) ]
  IN { s0,
       addNewEntryInternal(s0, <<"/", "a">>, FALSE, Root, d).fs,
       addNewEntryInternal(s0, <<"/", "a">>, TRUE, Root, d).fs,
       addNewEntryInternal(s0, <<"/", "a", "/", "b">>, FALSE, Root, d).fs }

\* the paths named in batch commands
BatchArgs == { <<"/", "a">>, <<"/", "a", "/", "b">>, <<"/", "b">> }

\* the argument lists of a batch command
BatchPaths == UNION { [ 1..n -> BatchArgs ] : n \in 1..MaxThreads }

\* the locations at which a thread holds fileSystemMutex
Critical == { "locked", "ensured", "data", "returning", "relocked", "recorded" }

\* the session has run one of the set-up commands and shows its prompt
InitBatch ==
  /\ today = 1
  /\ memoryFileSystem \in BatchStores
  /\ currentDirectory = Root
  /\ disk = [ exists |-> FALSE, lines |-> {} ]
  /\ last = Report("init", TRUE, "")
  /\ steps = 0
  /\ out = NoOutput
  /\ batch = NoBatch

\* the threads.emplace_back loop of createMultipleFiles, writeToFileBatch
\* and deleteMultipleFiles: one thread per item, none of them run yet
StartBatch(op, paths, contents) ==
  [ op |-> op, paths |-> paths, contents |-> contents,
    normalizedPath |-> [ t \in DOMAIN paths |-> normalizePath(paths[t], currentDirectory) ],
    before |-> memoryFileSystem,
    pc |-> [ t \in DOMAIN paths |-> "start" ],
    owner |-> 0,
    ret |-> [ t \in DOMAIN paths |-> "none" ],
    missingFiles |-> <<>> ]

\* create [-n k] p1 .. pk: parseCreateCommand, createMultipleFiles
BatchCreate(paths) ==
  /\ batch.op = "none"
  /\ Step
  /\ batch' = StartBatch("create", paths, <<>>)
  /\ last' = Report("create", TRUE, "")
  /\ UNCHANGED << memoryFileSystem, currentDirectory, today, disk, out >>

\* write [-n k] p1 c1 .. pk ck: parseWriteCommand, writeToFileBatch
BatchWrite(paths, contents) ==
  /\ batch.op = "none"
  /\ Step
  /\ batch' = StartBatch("write", paths, contents)
  /\ last' = Report("write", TRUE, "")
  /\ UNCHANGED << memoryFileSystem, currentDirectory, today, disk, out >>

\* delete [-n k] p1 .. pk: parseDeleteCommand, deleteMultipleFiles
BatchDelete(paths) ==
  /\ batch.op = "none"
  /\ Step
  /\ batch' = StartBatch("delete", paths, <<>>)
  /\ last' = Report("delete", TRUE, "")
  /\ UNCHANGED << memoryFileSystem, currentDirectory, today, disk, out >>

\* thread t of the running batch is at loc
At(t, loc) == t \in DOMAIN batch.pc /\ batch.pc[t] = loc

\* the key thread t works on: what normalizePath(path) returns in its
\* operation.  currentDirectory is assigned by cd alone, which the main
\* thread cannot run before the batch has returned, so the value is the
\* one normalizePath has when the threads are started
KeyOf(t) == batch.normalizedPath[t]

\* a thread step that leaves the map alone
ThreadFrame == UNCHANGED << memoryFileSystem, currentDirectory, today, disk, last, steps, out >>

\* a thread step that changes the map
MapFrame == UNCHANGED << currentDirectory, today, disk, last, steps, out >>

\* locking that does not wait for the holder to release
Lock_NoWait(t) ==
  /\ At(t, "start") \/ At(t, "failed")
  /\ batch' = [ batch EXCEPT !.owner = t,
                             !.pc[t] = IF @ = "start" THEN "locked" ELSE "relocked" ]
  /\ ThreadFrame

\* std::lock_guard lock(fileSystemMutex) on entry of addNewFile,
\* writeContentToFile and removeFile; fileSystemMutex.lock() in the
\* lambda of deleteMultipleFiles
Lock(t) ==
  /\ At(t, "start") \/ At(t, "failed")
  /\ batch.owner = 0
  /\ batch' = [ batch EXCEPT !.owner = t,
                             !.pc[t] = IF @ = "start" THEN "locked" ELSE "relocked" ]
  /\ ThreadFrame

\* addNewEntryInternal up to the return of ensureParentDirectoriesExist:
\* refused when the key is present
CreateCheck(t) ==
  /\ batch.op = "create" /\ At(t, "locked")
  /\ memoryFileSystem' =
       IF KeyOf(t) \in DOMAIN memoryFileSystem
       THEN memoryFileSystem
       ELSE ensureParentDirectoriesExist(memoryFileSystem, KeyOf(t), date)
  /\ batch' = IF KeyOf(t) \in DOMAIN memoryFileSystem
              THEN [ batch EXCEPT !.ret[t] = "false", !.pc[t] = "returning" ]
              ELSE [ batch EXCEPT !.pc[t] = "ensured" ]
  /\ MapFrame

\* an insertion computed on the map as it was when the batch began
CreateInsert_FromSnapshot(t) ==
  /\ batch.op = "create" /\ At(t, "ensured")
  /\ memoryFileSystem' = Put(ensureParentDirectoriesExist(batch.before, KeyOf(t), date),
                             KeyOf(t), FSEntry("FILE", <<>>, 0, date, date))
  /\ batch' = [ batch EXCEPT !.ret[t] = "true", !.pc[t] = "returning" ]
  /\ MapFrame

\* addNewEntryInternal from "Create a new entry" to return true
CreateInsert(t) ==
  /\ batch.op = "create" /\ At(t, "ensured")
  /\ memoryFileSystem' = Put(memoryFileSystem, KeyOf(t), FSEntry("FILE", <<>>, 0, date, date))
  /\ batch' = [ batch EXCEPT !.ret[t] = "true", !.pc[t] = "returning" ]
  /\ MapFrame

\* the first half of writeContentToFile, with the lock given up once the
\* ancestors are in place
WriteEnsure_Unlocks(t) ==
  /\ batch.op = "write" /\ At(t, "locked")
  /\ memoryFileSystem' = ensureParentDirectoriesExist(memoryFileSystem, KeyOf(t), date)
  /\ batch' = [ batch EXCEPT !.pc[t] = "ensured", !.owner = 0 ]
  /\ MapFrame

\* writeContentToFile up to the return of ensureParentDirectoriesExist
WriteEnsure(t) ==
  /\ batch.op = "write" /\ At(t, "locked")
  /\ memoryFileSystem' = ensureParentDirectoriesExist(memoryFileSystem, KeyOf(t), date)
  /\ batch' = [ batch EXCEPT !.pc[t] = "ensured" ]
  /\ MapFrame

\* writeContentToFile from the fileExists test: a new FILE entry is stored
\* whole; for a present file updateFileContent assigns data first
WriteStore(t) ==
  /\ batch.op = "write" /\ At(t, "ensured")
  /\ IF fileExists(memoryFileSystem, KeyOf(t))
     THEN /\ memoryFileSystem' = [ memoryFileSystem EXCEPT ![KeyOf(t)].data = batch.contents[t] ]
          /\ batch' = [ batch EXCEPT !.pc[t] = "data" ]
     ELSE /\ memoryFileSystem' =
               Put(memoryFileSystem, KeyOf(t),
                   FSEntry("FILE", batch.contents[t], Len(batch.contents[t]), date, date))
          /\ batch' = [ batch EXCEPT !.ret[t] = "true", !.pc[t] = "returning" ]
  /\ MapFrame

\* updateFileContent after the assignment of data: sizeInBytes and
\* modificationDate, return true
WriteSize(t) ==
  /\ batch.op = "write" /\ At(t, "data")
  /\ memoryFileSystem' =
       [ memoryFileSystem EXCEPT ![KeyOf(t)] =
           [ @ EXCEPT !.sizeInBytes = Len(batch.contents[t]),
                      !.modificationDate = date ] ]
  /\ batch' = [ batch EXCEPT !.ret[t] = "true", !.pc[t] = "returning" ]
  /\ MapFrame

\* removeEntryInternal(path, false) inside removeFile
DeleteRemove(t) ==
  LET r == RemoveNormalized(memoryFileSystem, KeyOf(t), FALSE)
  IN /\ batch.op = "delete" /\ At(t, "locked")
     /\ memoryFileSystem' = r.fs
     /\ batch' = [ batch EXCEPT !.ret[t] = IF r.ok THEN "true" ELSE "false",
                                !.pc[t] = "returning" ]
     /\ MapFrame

\* missingFiles holds this path alone afterwards
RecordMissing_Overwrite(t) ==
  /\ batch.op = "delete" /\ At(t, "relocked")
  /\ batch' = [ batch EXCEPT !.missingFiles = << batch.paths[t] >>,
                             !.pc[t] = "recorded" ]
  /\ ThreadFrame

\* missingFiles.push_back(path)
RecordMissing(t) ==
  /\ batch.op = "delete" /\ At(t, "relocked")
  /\ batch' = [ batch EXCEPT !.missingFiles = Append(@, batch.paths[t]),
                             !.pc[t] = "recorded" ]
  /\ ThreadFrame

\* removeFile returning false with the lock still held: the lambda then
\* asks for the mutex it owns
Unlock_KeepsLock(t) ==
  /\ At(t, "returning") \/ At(t, "recorded")
  /\ batch' = [ batch EXCEPT
                  !.owner = IF batch.pc[t] = "returning" /\ batch.op = "delete"
                               /\ batch.ret[t] = "false"
                            THEN t ELSE 0,
                  !.pc[t] = IF @ = "returning" /\ batch.op = "delete" /\ batch.ret[t] = "false"
                            THEN "failed" ELSE "done" ]
  /\ ThreadFrame

\* the destructor of lock_guard at the return of the operation, after which
\* the lambda of deleteMultipleFiles looks at what removeFile returned;
\* fileSystemMutex.unlock() after the push_back
Unlock(t) ==
  /\ At(t, "returning") \/ At(t, "recorded")
  /\ batch' = [ batch EXCEPT
                  !.owner = 0,
                  !.pc[t] = IF @ = "returning" /\ batch.op = "delete" /\ batch.ret[t] = "false"
                            THEN "failed" ELSE "done" ]
  /\ ThreadFrame

\* the thread.join() loop returns once every thread has
Join ==
  /\ batch.op # "none"
  /\ \A t \in DOMAIN batch.pc : batch.pc[t] = "done"
  /\ batch' = [ batch EXCEPT !.pc = [ t \in DOMAIN batch.pc |-> "joined" ] ]
  /\ ThreadFrame

NextBatch ==
  \/ \E paths \in BatchPaths : BatchCreate(paths)
  \/ \E paths \in BatchPaths : \E contents \in [ DOMAIN paths -> Contents ] :
       BatchWrite(paths, contents)
  \/ \E paths \in BatchPaths : BatchDelete(paths)
  \/ \E t \in 1..MaxThreads : Lock(t)
  \/ \E t \in 1..MaxThreads : CreateCheck(t)
  \/ \E t \in 1..MaxThreads : CreateInsert(t)
  \/ \E t \in 1..MaxThreads : WriteEnsure(t)
  \/ \E t \in 1..MaxThreads : WriteStore(t)
  \/ \E t \in 1..MaxThreads : WriteSize(t)
  \/ \E t \in 1..MaxThreads : DeleteRemove(t)
  \/ \E t \in 1..MaxThreads : RecordMissing(t)
  \/ \E t \in 1..MaxThreads : Unlock(t)
  \/ Join

SpecBatch == InitBatch /\ [][NextBatch]_vars

\* what thread t can do next
ThreadStep(t) ==
  \/ Lock(t)
  \/ CreateCheck(t)
  \/ CreateInsert(t)
  \/ WriteEnsure(t)
  \/ WriteStore(t)
  \/ WriteSize(t)
  \/ DeleteRemove(t)
  \/ RecordMissing(t)
  \/ Unlock(t)

\* as long as some thread can take a step the scheduler runs one that
\* can (a thread blocked in lock() is not one), and the main thread
\* returns from join() once every thread has finished; when a batch
\* command is typed is up to the user
SpecBatchFair ==
  /\ InitBatch
  /\ [][NextBatch]_vars
  /\ WF_vars(Join \/ \E t \in 1..MaxThreads : ThreadStep(t))

\* ------------------------------------------------- vocabulary of the claims
\* key lies strictly below path in the hierarchy the keys spell out
Under(key, path) == key # path /\ StartsWith(key, PrefixOf(path))

\* the ancestor paths of a key: the root and every prefix that ends before a '/'
Ancestors(key) ==
  (IF Under(key, Root) THEN { Root } ELSE {})
  \cup { SubSeq(key, 1, i - 1) : i \in { j \in 3..Len(key) : key[j] = "/" } }

\* key with its leading src replaced by dst
Rebase(key, src, dst) ==
  IF key = src THEN dst ELSE PrefixOf(dst) \o SubSeq(key, Len(PrefixOf(src)) + 1, Len(key))

\* a canonical absolute path: starts with '/', no trailing '/' unless root,
\* no empty, "." or ".." segment
IsCanonical(key) ==
  /\ key # <<>>
  /\ key[1] = "/"
  /\ key # Root => key[Len(key)] # "/"
  /\ \A i \in 1..(Len(key) - 1) : ~(key[i] = "/" /\ key[i + 1] = "/")
  /\ \A i \in 1..Len(key) :
       key[i] = "/" =>
         LET rest == SubSeq(key, i + 1, Len(key))
             seg == IF \E j \in 1..Len(rest) : rest[j] = "/"
                    THEN SubSeq(rest, 1, (CHOOSE j \in 1..Len(rest) :
                                            rest[j] = "/" /\ \A h \in 1..(j - 1) : rest[h] # "/") - 1)
                    ELSE rest
         IN seg # <<".">> /\ seg # <<".", ".">>

\* the normalized form of an argument typed in the current state
Norm(arg) == normalizePath(arg, currentDirectory)

\* --------------------------------------------------------------- the claims
\* C1: after any sequence of create, mkdir, write, delete, rmdir, mv and cp
\* commands, every non-root key of the map has all of its ancestor paths in
\* the map as Directory entries.
C1_AncestorsAreDirectories ==
  \A k \in DOMAIN memoryFileSystem :
    k # Root => \A a \in Ancestors(k) : directoryExists(memoryFileSystem, a)

\* C2: mv of a Directory src to any absent dst, wherever dst lies relative
\* to src: every key src/r present before is present afterwards as dst/r
\* with the same entry, and afterwards no key equal to src or below src remains.
C2_MoveKeepsEveryDescendant ==
  [][ \A src \in PathArgs, dst \in PathArgs :
        (last'.op = "mv" /\ last'.ok /\ directoryExists(memoryFileSystem, Norm(src)) /\ Mv(src, dst))
        => /\ \A k \in DOMAIN memoryFileSystem :
                Under(k, Norm(src))
                => /\ Rebase(k, Norm(src), Norm(dst)) \in DOMAIN memoryFileSystem'
                   /\ memoryFileSystem'[Rebase(k, Norm(src), Norm(dst))] = memoryFileSystem[k]
           /\ \A k \in DOMAIN memoryFileSystem' :
                k # Norm(src) /\ ~Under(k, Norm(src)) ]_vars

\* C3: after a successful move of a directory with N descendants the map
\* holds the same N+1 entries at the remapped paths, none at the old paths,
\* and as many entries in total as before the move.
C3_MovePreservesCardinality ==
  [][ \A src \in PathArgs, dst \in PathArgs :
        (last'.op = "mv" /\ last'.ok /\ directoryExists(memoryFileSystem, Norm(src)) /\ Mv(src, dst))
        => /\ directoryExists(memoryFileSystem', Norm(dst))
           /\ \A k \in DOMAIN memoryFileSystem :
                Under(k, Norm(src))
                => /\ Rebase(k, Norm(src), Norm(dst)) \in DOMAIN memoryFileSystem'
                   /\ memoryFileSystem'[Rebase(k, Norm(src), Norm(dst))] = memoryFileSystem[k]
           /\ \A k \in DOMAIN memoryFileSystem' :
                k # Norm(src) /\ ~Under(k, Norm(src))
           /\ Cardinality(DOMAIN memoryFileSystem') = Cardinality(DOMAIN memoryFileSystem) ]_vars

\* C4: a write to a path that is a Directory is rejected: it reports
\* failure and leaves the map unchanged.
C4_WriteToDirectoryRejected ==
  [][ \A arg \in PathArgs, content \in Contents :
        (last'.op = "write" /\ directoryExists(memoryFileSystem, Norm(arg)) /\ Write(arg, content))
        => /\ ~last'.ok
           /\ memoryFileSystem' = memoryFileSystem ]_vars

\* C5: creating or writing an entry below an ancestor that is a File fails:
\* it reports failure, the ancestor stays the File it was and no key is added.
C5_FileAncestorRejected ==
  [][ \A arg \in PathArgs :
        (last'.op \in { "create", "mkdir", "write" }
         /\ (\E a \in Ancestors(Norm(arg)) : fileExists(memoryFileSystem, a))
         /\ (Create(arg) \/ Mkdir(arg) \/ \E content \in Contents : Write(arg, content)))
        => /\ ~last'.ok
           /\ memoryFileSystem' = memoryFileSystem ]_vars

\* C6: in every reachable state the current directory is "/" or the key of
\* an entry that is in the map as a Directory.
C6_CurrentDirectoryExists ==
  currentDirectory = Root \/ directoryExists(memoryFileSystem, currentDirectory)

\* C7: every key of the map is a canonical absolute path.
C7_KeysAreCanonical ==
  \A k \in DOMAIN memoryFileSystem : IsCanonical(k)

\* C8: the root "/" is always in the map, as a Directory.
C8_RootAlwaysExists ==
  directoryExists(memoryFileSystem, Root)

\* C9: after a successful copy every key present before is still present
\* with an unchanged entry, and for every key of the src subtree the key
\* rebased on dst exists with the same kind and the same content.
C9_CopyKeepsSourceAndCopiesSubtree ==
  [][ \A src \in PathArgs, dst \in PathArgs :
        (last'.op = "cp" /\ last'.ok /\ Cp(src, dst))
        => /\ \A k \in DOMAIN memoryFileSystem :
                /\ k \in DOMAIN memoryFileSystem'
                /\ memoryFileSystem'[k] = memoryFileSystem[k]
           /\ \A k \in DOMAIN memoryFileSystem :
                (k = Norm(src) \/ Under(k, Norm(src)))
                => /\ Rebase(k, Norm(src), Norm(dst)) \in DOMAIN memoryFileSystem'
                   /\ memoryFileSystem'[Rebase(k, Norm(src), Norm(dst))].type
                        = memoryFileSystem[k].type
                   /\ memoryFileSystem'[Rebase(k, Norm(src), Norm(dst))].data
                        = memoryFileSystem[k].data ]_vars

\* C10: a non-recursive remove of a Directory that has at least one
\* descendant key fails with "Directory not empty" and leaves the map unchanged.
C10_NonEmptyDirectoryKept ==
  [][ \A arg \in PathArgs :
        (/\ last'.op \in { "rmdir", "delete" }
         /\ directoryExists(memoryFileSystem, Norm(arg))
         /\ \E k \in DOMAIN memoryFileSystem : Under(k, Norm(arg))
         /\ Rmdir(arg, FALSE) \/ Delete(arg))
        => /\ ~last'.ok
           /\ last'.err = "DirectoryNotEmpty"
           /\ memoryFileSystem' = memoryFileSystem ]_vars

\* C10 witness: a remove without -r has just been refused with "Directory
\* not empty", and a directory with a descendant is still in the map
C10_Witness ==
  /\ last.op \in { "rmdir", "delete" }
  /\ ~last.ok
  /\ last.err = "DirectoryNotEmpty"
  /\ \E d \in DOMAIN memoryFileSystem :
       /\ directoryExists(memoryFileSystem, d)
       /\ \E k \in DOMAIN memoryFileSystem : Under(k, d)

\* C11 as stated: a recursive remove of a Directory erases exactly the key
\* path and every key starting with path + "/"; every other key stays
\* present with an unchanged entry.
C11_RecursiveRemoveErasesPathSlash ==
  [][ \A arg \in SiblingArgs :
        (/\ last'.op = "rmdir"
         /\ directoryExists(memoryFileSystem, Norm(arg))
         /\ Rmdir(arg, TRUE))
        => /\ last'.ok
           /\ DOMAIN memoryFileSystem'
                = { k \in DOMAIN memoryFileSystem :
                      k # Norm(arg) /\ ~StartsWith(k, Norm(arg) \o <<"/">>) }
           /\ \A k \in DOMAIN memoryFileSystem' :
                memoryFileSystem'[k] = memoryFileSystem[k] ]_vars

\* C11 amended: a recursive remove of a Directory erases exactly the key
\* path and every key starting with path + "/" (with "/" when path is the
\* root); every other key, such as /ab when /a is removed, stays present
\* with an unchanged entry.
C11_RecursiveRemoveErasesSubtree ==
  [][ \A arg \in SiblingArgs :
        (/\ last'.op = "rmdir"
         /\ directoryExists(memoryFileSystem, Norm(arg))
         /\ Rmdir(arg, TRUE))
        => /\ last'.ok
           /\ DOMAIN memoryFileSystem'
                = { k \in DOMAIN memoryFileSystem :
                      /\ k # Norm(arg)
                      /\ ~StartsWith(k, IF Norm(arg) = Root THEN Root
                                        ELSE Norm(arg) \o <<"/">>) }
           /\ \A k \in DOMAIN memoryFileSystem' :
                memoryFileSystem'[k] = memoryFileSystem[k] ]_vars

\* C11 witness: an rmdir has succeeded and left /ab in the map while /a
\* and everything below it is gone
C11_Witness ==
  /\ last.op = "rmdir"
  /\ last.ok
  /\ <<"/", "a", "b">> \in DOMAIN memoryFileSystem
  /\ <<"/", "a">> \notin DOMAIN memoryFileSystem
  /\ \A k \in DOMAIN memoryFileSystem : ~StartsWith(k, <<"/", "a", "/">>)

\* C12: mv and cp fail with NotFound when src is absent and with
\* AlreadyExists when src is present and dst is present (src = dst
\* included), and in both cases the map is left unchanged.
\* (Stated as "refused, or not such a step": a step that is a mv or cp of
\* an absent src or onto a present dst is a refusal.)
C12_MoveCopyFailures ==
  [][ last'.op \in { "mv", "cp" }
      => \A src \in PathArgs :
           LET sourcePath == Norm(src)
               absent == sourcePath \notin DOMAIN memoryFileSystem
               refused == /\ ~last'.ok
                          /\ last'.err = IF absent THEN "NotFound" ELSE "AlreadyExists"
                          /\ memoryFileSystem' = memoryFileSystem
           IN \A dst \in PathArgs :
                \/ refused
                \/ ~ /\ absent \/ Norm(dst) \in DOMAIN memoryFileSystem
                     /\ \/ last'.op = "mv" /\ Mv(src, dst)
                        \/ last'.op = "cp" /\ Cp(src, dst) ]_vars

\* C12 witness: a mv or cp has just been refused because its destination
\* exists, in a map that holds more than the root
C12_Witness ==
  /\ last.op \in { "mv", "cp" }
  /\ ~last.ok
  /\ last.err = "AlreadyExists"
  /\ Cardinality(DOMAIN memoryFileSystem) > 1

\* C13: mv of a File src to an absent dst relabels one key: dst holds the
\* entry src held, src is absent and every other key is unchanged.
C13_FileMoveRelabelsOneKey ==
  [][ \A src \in PathArgs, dst \in PathArgs :
        (/\ last'.op = "mv"
         /\ fileExists(memoryFileSystem, Norm(src))
         /\ Norm(dst) \notin DOMAIN memoryFileSystem
         /\ Mv(src, dst))
        => /\ last'.ok
           /\ DOMAIN memoryFileSystem'
                = (DOMAIN memoryFileSystem \ { Norm(src) }) \cup { Norm(dst) }
           /\ memoryFileSystem'[Norm(dst)] = memoryFileSystem[Norm(src)]
           /\ \A k \in DOMAIN memoryFileSystem \ { Norm(src) } :
                memoryFileSystem'[k] = memoryFileSystem[k] ]_vars

\* C13 witness: a mv has succeeded in a map that holds a written File and
\* no directory that a mv could have made, so the File is what moved
C13_Witness ==
  /\ last.op = "mv"
  /\ last.ok
  /\ \A k \in DOMAIN memoryFileSystem :
       memoryFileSystem[k].type = "DIRECTORY" => k \in { Root, <<>> }
  /\ \E k \in DOMAIN memoryFileSystem :
       /\ fileExists(memoryFileSystem, k)
       /\ memoryFileSystem[k].data # <<>>

\* C14: after a successful create of a File on an absent path p, every
\* proper ancestor of p below the root is in the map as a Directory and p
\* is in the map as a File with empty content and size 0.
C14_CreateMakesAncestors ==
  [][ \A arg \in SiblingArgs :
        (/\ last'.op = "create"
         /\ last'.ok
         /\ Norm(arg) \notin DOMAIN memoryFileSystem
         /\ Create(arg))
        => /\ \A a \in Ancestors(Norm(arg)) \ { Root } :
                directoryExists(memoryFileSystem', a)
           /\ fileExists(memoryFileSystem', Norm(arg))
           /\ memoryFileSystem'[Norm(arg)].data = <<>>
           /\ memoryFileSystem'[Norm(arg)].sizeInBytes = 0 ]_vars

\* C14 witness: the first command of the session, a create, has made the
\* File /a/b/c together with the Directories /a and /a/b
C14_Witness ==
  /\ steps = 1
  /\ last.op = "create"
  /\ last.ok
  /\ fileExists(memoryFileSystem, <<"/", "a", "/", "b", "/", "c">>)
  /\ directoryExists(memoryFileSystem, <<"/", "a", "/", "b">>)
  /\ directoryExists(memoryFileSystem, <<"/", "a">>)

\* C15: create or mkdir on a path that is already in the map fails with
\* AlreadyExists and leaves the map unchanged.
C15_CreateOnPresentPathRefused ==
  [][ \A arg \in PathArgs :
        (/\ last'.op \in { "create", "mkdir" }
         /\ Norm(arg) \in DOMAIN memoryFileSystem
         /\ Create(arg) \/ Mkdir(arg))
        => /\ ~last'.ok
           /\ last'.err = "AlreadyExists"
           /\ memoryFileSystem' = memoryFileSystem ]_vars

\* C15 witness: a create or mkdir has just been refused with AlreadyExists
\* while the map holds a File with content
C15_Witness ==
  /\ last.op \in { "create", "mkdir" }
  /\ ~last.ok
  /\ last.err = "AlreadyExists"
  /\ \E k \in DOMAIN memoryFileSystem :
       fileExists(memoryFileSystem, k) /\ memoryFileSystem[k].data # <<>>

\* C16: every File entry has sizeInBytes equal to the length of its
\* content, and every Directory entry has empty content and sizeInBytes 0.
C16_SizeMatchesContent ==
  \A k \in DOMAIN memoryFileSystem :
    IF memoryFileSystem[k].type = "FILE"
    THEN memoryFileSystem[k].sizeInBytes = Len(memoryFileSystem[k].data)
    ELSE memoryFileSystem[k].data = <<>> /\ memoryFileSystem[k].sizeInBytes = 0

\* C16 witness: a File created empty has since been overwritten with two
\* characters, beside a Directory other than the root
C16_Witness ==
  /\ last.op = "write"
  /\ last.ok
  /\ \E k \in DOMAIN memoryFileSystem :
       /\ fileExists(memoryFileSystem, k)
       /\ memoryFileSystem[k].data = <<"y", "y">>
       /\ memoryFileSystem[k].creationDate # memoryFileSystem[k].modificationDate
  /\ \E k \in DOMAIN memoryFileSystem \ { Root } :
       directoryExists(memoryFileSystem, k)

\* the reference normalization, read character by character: a segment
\* ends at each "/" and at the end of the string; empty and "." segments
\* are dropped, ".." drops the last kept segment if there is one
RECURSIVE ReferenceScan(_, _, _)
ReferenceScan(chars, kept, segment) ==
  LET closed == IF segment \in { <<>>, <<".">> } THEN kept
                ELSE IF segment = <<".", ".">>
                     THEN (IF kept = <<>> THEN kept ELSE SubSeq(kept, 1, Len(kept) - 1))
                     ELSE Append(kept, segment)
  IN IF chars = <<>> THEN closed
     ELSE IF Head(chars) = "/" THEN ReferenceScan(Tail(chars), closed, <<>>)
     ELSE ReferenceScan(Tail(chars), kept, Append(segment, Head(chars)))

\* the kept segments reassembled, each behind a "/"
RECURSIVE ReferenceAssemble(_)
ReferenceAssemble(kept) ==
  IF kept = <<>> THEN <<>>
  ELSE <<"/">> \o Head(kept) \o ReferenceAssemble(Tail(kept))

ReferenceNormalize(path, cwd) ==
  LET absolute == path # <<>> /\ path[1] = "/"
      kept == ReferenceScan(IF absolute THEN path ELSE cwd \o <<"/">> \o path, <<>>, <<>>)
  IN IF kept = <<>> THEN Root ELSE ReferenceAssemble(kept)

\* C17: normalizePath(path) under a canonical current directory equals the
\* reference result, and the result is canonical: it starts with "/", has
\* no trailing "/" unless it is "/", and has no empty, "." or ".." segment.
C17_NormalizeMatchesReference ==
  out.fn = "normalizePath"
  => /\ out.result = ReferenceNormalize(out.path, currentDirectory)
     /\ IsCanonical(out.result)

\* C17 witness: normalizePath("../../../x") under /a has returned /x
C17_Witness ==
  /\ out.fn = "normalizePath"
  /\ currentDirectory = <<"/", "a">>
  /\ out.path = <<".", ".", "/", ".", ".", "/", ".", ".", "/", "x">>
  /\ out.result = <<"/", "x">>

\* C18: normalizePath applied to its own result returns that result, and
\* the result for an absolute path is the same under every canonical
\* current directory.
C18_NormalizeIdempotent ==
  out.fn = "normalizePath"
  => /\ normalizePath(out.result, currentDirectory) = out.result
     /\ (out.path # <<>> /\ out.path[1] = "/")
        => \A cwd \in CanonicalCwds : normalizePath(out.path, cwd) = out.result

\* C18 witness: an absolute path with a ".." has been normalized under a
\* current directory other than the root
C18_Witness ==
  /\ out.fn = "normalizePath"
  /\ currentDirectory = <<"/", "a", "/", "b">>
  /\ out.path = <<"/", "a", "/", ".", ".">>
  /\ out.result = Root

\* C19: getDirectoryFromPath of a canonical path whose only "/" is the
\* first character returns "/"; of every other canonical path but the root
\* it returns the characters before the last "/".
C19_DirnameOfTopLevelIsRoot ==
  (out.fn = "getDirectoryFromPath" /\ IsCanonical(out.path) /\ out.path # Root)
  => out.result = IF \A i \in 2..Len(out.path) : out.path[i] # "/"
                  THEN Root
                  ELSE SubSeq(out.path, 1, LastSlash(out.path) - 1)

\* the prefix of the keys below dir: dir and a "/", or "/" for the root
PrefixOfDir(dir) == IF dir = Root THEN Root ELSE dir \o <<"/">>

\* key is dir's prefix followed by one segment with no further "/"
DirectChild(key, dir) ==
  LET pre == PrefixOfDir(dir)
  IN /\ Len(key) > Len(pre)
     /\ \A i \in 1..Len(pre) : key[i] = pre[i]
     /\ \A i \in (Len(pre) + 1)..Len(key) : key[i] # "/"

\* C20: ls of an existing Directory d returns exactly the entries whose
\* key is d's prefix followed by one segment with no further "/", each
\* under that segment as its name; ls of a path that is not a Directory
\* fails and returns nothing.
C20_ListShowsDirectChildren ==
  last.op = "ls"
  => IF directoryExists(memoryFileSystem, out.path)
     THEN /\ last.ok
          /\ out.entries
               = { [ name |-> SubSeq(k, Len(PrefixOfDir(out.path)) + 1, Len(k)),
                     entry |-> memoryFileSystem[k] ] :
                   k \in { e \in DOMAIN memoryFileSystem : DirectChild(e, out.path) } }
     ELSE ~last.ok /\ out.entries = {}

\* C20 witness: ls /a has shown b alone while /a/b/c and /ab are in the map
C20_Witness ==
  /\ last.op = "ls"
  /\ last.ok
  /\ out.path = <<"/", "a">>
  /\ { e.name : e \in out.entries } = { <<"b">> }
  /\ <<"/", "a", "/", "b", "/", "c">> \in DOMAIN memoryFileSystem
  /\ <<"/", "a", "b">> \in DOMAIN memoryFileSystem

\* C21: save followed by load yields a map equal to the saved one, key by
\* key: when the file on disk is what save writes for the current map, a
\* load leaves the map as it is.
C21_SaveLoadRoundTrip ==
  [][ (/\ last'.op = "load"
       /\ disk.exists
       /\ disk.lines = DumpLines(memoryFileSystem)
       /\ Load)
      => memoryFileSystem' = memoryFileSystem ]_vars

\* the positions of the "|" characters of a line, in order
Bars(line) == { i \in 1..Len(line) : line[i] = "|" }

\* the position of the n-th "|" of a line that has at least n of them
Bar(line, n) ==
  CHOOSE i \in Bars(line) : Cardinality({ j \in Bars(line) : j <= i }) = n

\* a record line: not empty, not a comment, and five fields ended by "|"
WellFormed(line) ==
  /\ line # <<>>
  /\ line[1] # "#"
  /\ Cardinality(Bars(line)) >= 5

\* the n-th field of a well-formed line; the sixth is the rest of the line
Field(line, n) ==
  SubSeq(line,
         IF n = 1 THEN 1 ELSE Bar(line, n - 1) + 1,
         IF n = 6 THEN Len(line) ELSE Bar(line, n) - 1)

\* the entry a well-formed line stands for is the entry e
Gives(line, e) ==
  /\ e.type = IF Field(line, 1) = <<"F", "I", "L", "E">> THEN "FILE" ELSE "DIRECTORY"
  /\ Decimal(e.sizeInBytes) = Field(line, 3)
  /\ e.creationDate = Field(line, 4)
  /\ e.modificationDate = Field(line, 5)
  /\ e.data = Field(line, 6)

Joined == batch.op # "none" /\ \A t \in DOMAIN batch.pc : batch.pc[t] = "joined"

\* the threads of the batch
Threads == DOMAIN batch.pc

\* C23: at every instant at most one thread is inside a store operation,
\* and a thread inside one holds fileSystemMutex from before its first
\* access of the map to after its last, so that no thread starts reading
\* the map while another is between two of its mutations
C23_MutualExclusion ==
  /\ \A t \in Threads : batch.pc[t] \in Critical => batch.owner = t
  /\ Cardinality({ t \in Threads : batch.pc[t] \in Critical }) <= 1
  /\ \A t, u \in Threads :
       batch.pc[t] \in { "ensured", "data" } /\ u # t
         => batch.pc[u] \in { "start", "failed", "done" }

\* one thread is between two mutations of the map while another waits
C23_Witness ==
  \E t, u \in Threads :
    /\ batch.pc[t] = "data" /\ batch.owner = t
    /\ batch.pc[u] = "start"

\* the keys of the batch are pairwise distinct and absent from the map the
\* batch is started on
DistinctAbsent ==
  /\ \A t, u \in Threads : t # u => KeyOf(t) # KeyOf(u)
  /\ \A t \in Threads : KeyOf(t) \notin DOMAIN batch.before

\* C24 as stated: after a batch create of pairwise-distinct absent paths,
\* every creation reported success and every path is a File
C24_DistinctAbsentAllCreated ==
  (Joined /\ batch.op = "create" /\ DistinctAbsent)
    => \A t \in Threads : batch.ret[t] = "true" /\ fileExists(memoryFileSystem, KeyOf(t))

\* C24 amended: after a batch create of pairwise-distinct absent paths none
\* of which lies below another, every creation reported success and every
\* path is a File, under every interleaving
C24_UnnestedAllCreated ==
  (/\ Joined /\ batch.op = "create" /\ DistinctAbsent
   /\ \A t, u \in Threads : ~Under(KeyOf(t), KeyOf(u)))
    => \A t \in Threads : batch.ret[t] = "true" /\ fileExists(memoryFileSystem, KeyOf(t))

\* create -n 2 /a /b on a store without them has returned
C24_Witness ==
  /\ Joined /\ batch.op = "create" /\ DistinctAbsent
  /\ Cardinality(Threads) = 2
  /\ \A t, u \in Threads : ~Under(KeyOf(t), KeyOf(u))
  /\ \A t \in Threads : fileExists(memoryFileSystem, KeyOf(t))

\* how often path occurs among the items whose removal returned false
FailedCount(path) ==
  Cardinality({ t \in Threads : batch.paths[t] = path /\ batch.ret[t] = "false" })

\* how often path occurs in missingFiles
ReportedCount(path) ==
  Cardinality({ i \in DOMAIN batch.missingFiles : batch.missingFiles[i] = path })

\* C25: a batch delete runs every item; afterwards every path whose removal
\* returned true is absent, missingFiles holds exactly the paths whose
\* removal returned false (once per failing item), and the entries of
\* keys the batch does not name are as they were
C25_BatchDeleteReport ==
  (Joined /\ batch.op = "delete")
    => /\ \A t \in Threads : batch.ret[t] \in { "true", "false" }
       /\ \A t \in Threads : batch.ret[t] = "true" => KeyOf(t) \notin DOMAIN memoryFileSystem
       /\ \A path \in BatchArgs : ReportedCount(path) = FailedCount(path)
       /\ Len(batch.missingFiles) = Cardinality({ t \in Threads : batch.ret[t] = "false" })
       /\ DOMAIN memoryFileSystem \subseteq DOMAIN batch.before
       /\ \A k \in DOMAIN batch.before :
            (\A t \in Threads : KeyOf(t) # k)
              => k \in DOMAIN memoryFileSystem /\ memoryFileSystem[k] = batch.before[k]

\* a batch delete has returned with one item removed and one reported
C25_Witness ==
  /\ Joined /\ batch.op = "delete"
  /\ \E t, u \in Threads :
       /\ batch.ret[t] = "true" /\ KeyOf(t) \in DOMAIN batch.before
       /\ batch.ret[u] = "false" /\ batch.missingFiles = << batch.paths[u] >>
  /\ \E k \in DOMAIN memoryFileSystem : k # Root

\* the orders in which the items of the batch can be taken one by one
Orders == { o \in [ Threads -> Threads ] : \A t, u \in Threads : t # u => o[t] # o[u] }

\* the map after the writes o[1], ..., o[n] applied one after another to fs
RECURSIVE SerialWrites(_, _, _)
SerialWrites(fs, o, n) ==
  IF n = 0 THEN fs
  ELSE writeContentToFile(SerialWrites(fs, o, n - 1), batch.paths[o[n]],
                          batch.contents[o[n]], currentDirectory, date).fs

\* C29: the map a batch write leaves, once every thread is joined, is the
\* map that the same writes leave when applied one after another in some
\* order; a key written by several items holds the content of one of them
C29_BatchWriteSerializable ==
  (Joined /\ batch.op = "write")
    => /\ \E o \in Orders :
            memoryFileSystem = SerialWrites(batch.before, o, Cardinality(Threads))
       /\ \A t \in Threads :
            fileExists(memoryFileSystem, KeyOf(t))
              => \E u \in Threads :
                   /\ KeyOf(u) = KeyOf(t)
                   /\ memoryFileSystem[KeyOf(t)].data = batch.contents[u]
                   /\ memoryFileSystem[KeyOf(t)].sizeInBytes = Len(batch.contents[u])

\* two items wrote different contents to one file that was there before
C29_Witness ==
  /\ Joined /\ batch.op = "write"
  /\ \E t, u \in Threads :
       /\ t # u /\ KeyOf(t) = KeyOf(u) /\ batch.contents[t] # batch.contents[u]
       /\ fileExists(batch.before, KeyOf(t))
       /\ memoryFileSystem[KeyOf(t)].data = batch.contents[u]

\* C26: read fails on an absent path and on a Directory, succeeds on a
\* File with the data its entry holds, and never changes the map; a
\* successful write leaves its content as the data of the entry, so that a
\* read which finds the entry as the write left it returns that content
C26_ReadReturnsLastWrite ==
  [][ /\ last'.op = "read"
         => \A arg \in SessionArgs :
              Read(arg)
                => /\ memoryFileSystem' = memoryFileSystem
                   /\ IF \/ Norm(arg) \notin DOMAIN memoryFileSystem
                         \/ memoryFileSystem[Norm(arg)].type = "DIRECTORY"
                      THEN ~last'.ok
                      ELSE last'.ok /\ out'.data = memoryFileSystem[Norm(arg)].data
      /\ last'.op = "write"
         => \A arg \in SessionArgs, content \in Contents :
              (Write(arg, content) /\ last'.ok)
                => /\ fileExists(memoryFileSystem', Norm(arg))
                   /\ memoryFileSystem'[Norm(arg)].data = content ]_vars

\* a read has returned the second of two contents written to one file
C26_Witness ==
  /\ last.op = "read" /\ last.ok /\ out.fn = "read"
  /\ out.data = <<"y", "y">>
  /\ memoryFileSystem[out.path].creationDate = getCurrentDateString(1)
  /\ steps = 3

\* C27: after a copy or a move, a write to or a removal of one key leaves
\* the entry of every other key as it was
C27_WriteAfterCopyTouchesOneKey ==
  [][ (last.op \in { "cp", "mv" } /\ last.ok /\ last'.op \in { "write", "delete" })
      => \A arg \in PathArgs :
           (\/ \E content \in Contents : Write(arg, content)
            \/ Delete(arg))
             => \A k \in DOMAIN memoryFileSystem :
                  k # Norm(arg)
                    => k \in DOMAIN memoryFileSystem' /\ memoryFileSystem'[k] = memoryFileSystem[k] ]_vars

\* C30: the current directory changes in a cd only; a cd whose normalized
\* target is "/" or an existing Directory sets it to that target, and any
\* other cd is refused and leaves it as it was
C30_OnlyCdChangesDirectory ==
  [][ /\ currentDirectory' # currentDirectory
         => last'.op = "cd" /\ \E arg \in SessionArgs : Cd(arg)
      /\ last'.op = "cd"
         => \A arg \in SessionArgs :
              Cd(arg)
                => IF \/ Norm(arg) = Root
                      \/ directoryExists(memoryFileSystem, Norm(arg))
                   THEN last'.ok /\ currentDirectory' = Norm(arg)
                   ELSE ~last'.ok /\ currentDirectory' = currentDirectory ]_vars

\* a cd to a File has been refused
C30_Witness ==
  /\ last.op = "cd" /\ ~last.ok
  /\ currentDirectory = Root
  /\ fileExists(memoryFileSystem, <<"/", "a">>)
  /\ ~directoryExists(memoryFileSystem, <<"/", "b">>)

\* the keys of the map that a path can name (normalizePath never returns
\* the empty string)
NamedKeys(fs) == { k \in DOMAIN fs : k # <<>> }

\* the map holds the file k with the content hello
HoldsHello(fs, k) == fileExists(fs, k) /\ fs[k].data = Hello /\ fs[k].sizeInBytes = 5

\* the map at the start of the worked example
AtStart == DOMAIN memoryFileSystem = { Root }

\* the map after mkdir /docs
AfterMkdir ==
  /\ NamedKeys(memoryFileSystem) = { Root, Docs }
  /\ directoryExists(memoryFileSystem, Docs)

\* the map after write /docs/readme.txt hello
AfterWrite ==
  /\ NamedKeys(memoryFileSystem) = { Root, Docs, Readme }
  /\ directoryExists(memoryFileSystem, Docs)
  /\ HoldsHello(memoryFileSystem, Readme)

\* the map after cp /docs /backup
AfterCopy ==
  /\ NamedKeys(memoryFileSystem) = { Root, Docs, Readme, Backup, BackupReadme }
  /\ directoryExists(memoryFileSystem, Docs)
  /\ directoryExists(memoryFileSystem, Backup)
  /\ HoldsHello(memoryFileSystem, Readme)
  /\ HoldsHello(memoryFileSystem, BackupReadme)

\* the map after rmdir -r /docs
AfterRemove ==
  /\ NamedKeys(memoryFileSystem) = { Root, Backup, BackupReadme }
  /\ directoryExists(memoryFileSystem, Backup)
  /\ HoldsHello(memoryFileSystem, BackupReadme)

\* C28: from the initial store, mkdir /docs; write /docs/readme.txt hello;
\* read /docs/readme.txt gives hello; cp /docs /backup; read
\* /backup/readme.txt gives hello; rmdir /docs is refused (not empty) and
\* changes nothing; rmdir -r /docs succeeds; ls / then lists backup, a
\* Directory, and nothing else
C28_WorkedExample ==
  [][ /\ (AtStart /\ last'.op = "mkdir" /\ Mkdir(Docs))
         => last'.ok /\ AfterMkdir'
      /\ (AfterMkdir /\ last'.op = "write" /\ Write(Readme, Hello))
         => last'.ok /\ AfterWrite'
      /\ (AfterWrite /\ last'.op = "read" /\ Read(Readme))
         => last'.ok /\ out'.data = Hello /\ AfterWrite'
      /\ (AfterWrite /\ last'.op = "cp" /\ Cp(Docs, Backup))
         => last'.ok /\ AfterCopy'
      /\ (AfterCopy /\ last'.op = "read" /\ Read(BackupReadme))
         => last'.ok /\ out'.data = Hello /\ AfterCopy'
      /\ (AfterCopy /\ last'.op = "rmdir" /\ Rmdir(Docs, FALSE))
         => /\ ~last'.ok /\ last'.err = "DirectoryNotEmpty"
            /\ memoryFileSystem' = memoryFileSystem
      /\ (AfterCopy /\ last'.op = "rmdir" /\ Rmdir(Docs, TRUE))
         => last'.ok /\ AfterRemove'
      /\ (AfterRemove /\ last'.op = "ls" /\ Ls(Root))
         => /\ last'.ok
            /\ { e.name : e \in out'.entries } = { <<"b", "a", "c", "k", "u", "p">> }
            /\ \A e \in out'.entries : e.entry.type = "DIRECTORY" ]_vars

\* the eight commands are done and ls / has listed backup alone
C28_Witness ==
  /\ steps = MaxSteps
  /\ AfterRemove
  /\ last.op = "ls" /\ last.ok
  /\ out.fn = "ls" /\ out.path = Root
  /\ { e.name : e \in out.entries } = { <<"b", "a", "c", "k", "u", "p">> }

\* C31: no thread of a batch asks for fileSystemMutex while it holds it
\* (the lambda of deleteMultipleFiles locks only after removeFile has
\* released), the mutex is free when the batch returns, and under fair
\* scheduling every batch that is started is joined, each of its threads
\* having run its operation, which it does with the lock only
C31_BatchesTerminate ==
  /\ [](\A t \in Threads : batch.pc[t] \in { "start", "failed" } => batch.owner # t)
  /\ [](Joined => batch.owner = 0 /\ \A t \in Threads : batch.ret[t] # "none")
  /\ (batch.op # "none") ~> Joined

\* a batch delete of two items that both failed has returned, each
\* thread having taken the mutex twice
C31_Witness ==
  /\ Joined /\ batch.op = "delete"
  /\ Cardinality(Threads) = 2
  /\ \A t \in Threads : batch.ret[t] = "false"
  /\ Len(batch.missingFiles) = 2
  /\ batch.owner = 0

====
